---- MODULE Spec2Model ----
(***************************************************************************)
(* Query gateway of the care-quality suite (src/api/main.py): the HTTP     *)
(* handlers, the storage engine they query and the responses they build.   *)
(*                                                                         *)
(* Conventions of the model                                                *)
(*   - an SQL value is <<>> (NULL) or <<v>>;                               *)
(*   - a rate is kept in hundredths of a percent point (66.67 is 6667), so *)
(*     that ROUND(x, 2) is an integer computation;                         *)
(*   - full_name is the collation rank of the name (1 sorts before 2);     *)
(*   - a relation is the sequence of its rows in physical (heap) order.    *)
(*     Columns the handlers copy through unread (mrn, age_years, dates and *)
(*     the measure-specific extras) are left out of the rows.              *)
(***************************************************************************)
EXTENDS Integers, Sequences, FiniteSets, TLC

VARIABLES
  db,          \* the three measure relations the handlers read (lines 104, 135, 166)
  storage_up,  \* whether engine.connect() reaches the storage (line 18)
  req,         \* the request being handled by get_measure_details, if any
  resp         \* the response to the last request, once it is answered

vars == <<db, storage_up, req, resp>>

(***************************************************************************)
(* Bounds                                                                  *)
(***************************************************************************)
\* rows in the whole database, for databases of 0/1 indicator rows
MaxRows == 2
\* largest denominator / numerator of the single row of a one-row database
MaxVal == 3

(***************************************************************************)
(* Measure catalog                                                         *)
(***************************************************************************)
A1C == "quality_measures.hedis_diabetes_care_hemoglobin_a1c"
BCS == "quality_measures.hedis_breast_cancer_screening"
PSI == "quality_measures.hvbp_patient_safety_indicator"

Relations == {A1C, BCS, PSI}

\* the ids in declaration order, as the handlers go through them
CatalogOrder == <<"HEDIS-DM-A1C", "HEDIS-BCS", "HVBP-PSI-04">>

CatalogIds == {CatalogOrder[i] : i \in 1..Len(CatalogOrder)}

table_name(measure_id) ==
  CASE measure_id = "HEDIS-DM-A1C" -> A1C
    [] measure_id = "HEDIS-BCS" -> BCS
    [] measure_id = "HVBP-PSI-04" -> PSI

measure_name(measure_id) ==
  CASE measure_id = "HEDIS-DM-A1C" -> "Diabetes Care - Hemoglobin A1c"
    [] measure_id = "HEDIS-BCS" -> "Breast Cancer Screening"
    [] measure_id = "HVBP-PSI-04" -> "Death among surgical inpatients"

\* the if/elif chain of get_measure_details: exact, case-sensitive equality
InCatalog(measure_id) == measure_id \in CatalogIds

(***************************************************************************)
(* Inputs                                                                  *)
(***************************************************************************)
\* path parameters a caller may send to /measures/{measure_id}
MeasureIdInputs == CatalogIds \cup {"INVALID-MEASURE", "hedis-dm-a1c", "HEDIS-BCS "}

\* patients that may own rows, and the rank of their names
Patients == {"p1", "p2"}

FullNameOf(p) == IF p = "p1" THEN 2 ELSE 1

\* path parameters a caller may send to /patients/{patient_id}/measures
PatientIdInputs == Patients \cup {"test-patient-123"}

(***************************************************************************)
(* Storage contents                                                        *)
(***************************************************************************)
MkRow(p, d, n) ==
  [patient_id |-> p, full_name |-> FullNameOf(p), denominator |-> d, numerator |-> n]

\* rows of an indicator relation: one row per eligible patient (denominator
\* 1), who met the criterion (numerator 1) or did not (numerator 0)
UnitRows == {MkRow(p, 1, n) : p \in Patients, n \in 0..1}

\* rows with arbitrary non-negative counts, a numerator above the denominator
\* and a zero denominator included: the columns are plain integers
ValueRows == {MkRow(p, d, n) : p \in Patients, d \in 0..MaxVal, n \in 0..MaxVal}

EmptyDb == [r \in Relations |-> <<>>]

TotalRows(d) == Len(d[A1C]) + Len(d[BCS]) + Len(d[PSI])

RECURSIVE SeqsOfLen(_, _)
SeqsOfLen(S, n) ==
  IF n = 0 THEN {<<>>}
  ELSE {Append(s, x) : s \in SeqsOfLen(S, n - 1), x \in S}

\* how MaxRows rows (or fewer) can be spread over the three relations
RowSplits ==
  {s \in (0..MaxRows) \X (0..MaxRows) \X (0..MaxRows) : s[1] + s[2] + s[3] <= MaxRows}

\* databases of at most MaxRows indicator rows
UnitDbs ==
  UNION {{[r \in Relations |-> IF r = A1C THEN a ELSE IF r = BCS THEN b ELSE c] :
            a \in SeqsOfLen(UnitRows, s[1]),
            b \in SeqsOfLen(UnitRows, s[2]),
            c \in SeqsOfLen(UnitRows, s[3])} : s \in RowSplits}

\* databases of one row with counts up to MaxVal
ValueDbs == {[EmptyDb EXCEPT ![r] = <<row>>] : r \in Relations, row \in ValueRows}

DbContents == UnitDbs \cup ValueDbs

(***************************************************************************)
(* What the storage engine computes                                        *)
(***************************************************************************)
Null == <<>>

RECURSIVE SumOf(_, _)
SumOf(rows, col) ==
  IF rows = <<>> THEN 0
  ELSE (IF col = "denominator" THEN Head(rows).denominator ELSE Head(rows).numerator)
       + SumOf(Tail(rows), col)

\* SUM(col): NULL over no rows
SUM(rows, col) == IF rows = <<>> THEN Null ELSE <<SumOf(rows, col)>>

\* RoundDiv that cuts the fraction off instead of rounding
RoundDiv_truncates(a, b) == a \div b

\* ROUND(a / b, 0) for a >= 0 and b > 0, halves away from zero
RoundDiv(a, b) == (2 * a + b) \div (2 * b)

\* ROUND2 without the factor 100: the ratio instead of the percentage
ROUND2_ratio(n, d) == RoundDiv(n * 100, d)

\* ROUND((n::float / d) * 100, 2), in hundredths
ROUND2(n, d) == RoundDiv(n * 10000, d)

\* CASE WHEN SUM(denominator) > 0 THEN ROUND(...) ELSE 0 END: the comparison
\* with a NULL sum is not true, so the ELSE branch is taken
RateCase(sd, sn) ==
  IF sd # Null /\ sd[1] > 0 THEN <<ROUND2(sn[1], sd[1])>> ELSE <<0>>

\* the one row of the aggregate queries (lines 92-105, 203-213)
AggregateRow(rows) ==
  LET sd == SUM(rows, "denominator")
      sn == SUM(rows, "numerator")
  IN  [denominator |-> sd, numerator |-> sn, rate |-> RateCase(sd, sn)]

\* the permutations of 1..n
Perms(n) == {f \in [1..n -> 1..n] : \A i, j \in 1..n : i # j => f[i] # f[j]}

IsSortedByFullName(s) ==
  \A i \in 1..(Len(s) - 1) : s[i].full_name <= s[i + 1].full_name

\* the details query without its ORDER BY: the rows in physical order
OrderByFullName_physical(rows) == {rows}

\* ORDER BY full_name: every ordering of the rows that ascends by full_name
\* (the engine is free in the order of rows with equal names)
OrderByFullName(rows) ==
  {s \in {[i \in 1..Len(rows) |-> rows[f[i]]] : f \in Perms(Len(rows))} :
     IsSortedByFullName(s)}

\* WHERE patient_id = :patient_id, the bound parameter compared for equality
WherePatient(rows, patient_id) ==
  {i \in 1..Len(rows) : rows[i].patient_id = patient_id}

(***************************************************************************)
(* Outcomes of a round trip to the storage engine                          *)
(***************************************************************************)
\* what can happen when a handler connects, executes a query over rows and
\* maps the result into a pydantic model: it works, the relation does not
\* exist, or a column of the rows holds a value the model rejects (with no
\* rows there is nothing to reject: the sums are NULL and default to 0);
\* with the storage down, the connection fails
Outcomes(up, rows) ==
  IF ~up THEN {"connection_error"}
  ELSE IF rows = <<>> THEN {"ok", "missing_relation"}
  ELSE {"ok", "missing_relation", "unmappable"}

\* the same for results that go into plain dicts (no validation)
RawOutcomes(up) ==
  IF up THEN {"ok", "missing_relation"} ELSE {"connection_error"}

Query(text, relation, params, outcome) ==
  [text |-> text, relation |-> relation, params |-> params, outcome |-> outcome]

(***************************************************************************)
(* Python helpers                                                          *)
(***************************************************************************)
\* x or default, for x None or a number
PyOr(x, default) == IF x = Null \/ x[1] = 0 THEN default ELSE x[1]

\* QualityMeasure with the two sums taken from each other's column
QualityMeasure_swapped(measure_id, row) ==
  [measure_id |-> measure_id,
   measure_name |-> measure_name(measure_id),
   denominator |-> PyOr(row.numerator, 0),
   numerator |-> PyOr(row.denominator, 0),
   rate |-> PyOr(row.rate, 0)]

\* QualityMeasure(...) of lines 110-117
QualityMeasure(measure_id, row) ==
  [measure_id |-> measure_id,
   measure_name |-> measure_name(measure_id),
   denominator |-> PyOr(row.denominator, 0),
   numerator |-> PyOr(row.numerator, 0),
   rate |-> PyOr(row.rate, 0)]

\* PatientMeasure(...) of lines 239-247
PatientMeasure(row) ==
  [patient_id |-> row.patient_id, full_name |-> row.full_name,
   denominator |-> row.denominator, numerator |-> row.numerator]

(***************************************************************************)
(* Requests and responses                                                  *)
(***************************************************************************)
Idle == [pc |-> "idle", measure_id |-> "", summary_row |-> <<>>, reloaded |-> FALSE]

NoResponse ==
  [op |-> "none", arg |-> "", status |-> 0, detail |-> "", body |-> <<>>,
   queries |-> <<>>, reloaded |-> FALSE]

Response(op, arg, status, detail, body, queries) ==
  [op |-> op, arg |-> arg, status |-> status, detail |-> detail, body |-> body,
   queries |-> queries, reloaded |-> FALSE]

TypeOK ==
  /\ db \in [Relations -> Seq(UnitRows \cup ValueRows)]
  /\ storage_up \in BOOLEAN
  /\ req.pc \in {"idle", "details_query"}
  /\ resp.status \in {0, 200, 404, 500, 503}

Init ==
  /\ db \in DbContents
  /\ storage_up \in BOOLEAN
  /\ req = Idle
  /\ resp = NoResponse

(***************************************************************************)
(* GET / and POST /measures/refresh: no storage access                     *)
(***************************************************************************)
\* Every handler is a coroutine (async def) that calls the synchronous
\* engine.connect() and execute() and never awaits (lines 70-341), and the
\* application runs on one event loop (line 345): a handler that has started
\* keeps the loop until it returns. Hence the guard req.pc = "idle" of every
\* handler, of these two included.
root ==
  /\ req.pc = "idle"
  /\ resp' = Response("root", "", 200, "",
                      [message |-> "Value-Based Care Quality Suite API",
                       version |-> "1.0.0"], <<>>)
  /\ UNCHANGED <<db, storage_up, req>>

\* refresh_measures that runs the rebuild itself and starts by emptying the
\* relations
refresh_measures_rebuilds ==
  /\ req.pc = "idle"
  /\ resp' = Response("refresh_measures", "", 200, "",
                      [message |-> "Quality measures refresh initiated",
                       status |-> "success"], <<>>)
  /\ db' = EmptyDb
  /\ UNCHANGED <<storage_up, req>>

refresh_measures ==
  /\ req.pc = "idle"
  /\ resp' = Response("refresh_measures", "", 200, "",
                      [message |-> "Quality measures refresh initiated",
                       status |-> "success"], <<>>)
  /\ UNCHANGED <<db, storage_up, req>>

(***************************************************************************)
(* GET /health                                                             *)
(***************************************************************************)
\* health_result with the failed probe answered like the failures of the
\* other handlers
health_result_500(outcome) ==
  IF outcome = "ok"
  THEN Response("health_check", "", 200, "",
                [status |-> "healthy", database |-> "connected"],
                <<Query("SELECT 1", "", <<>>, outcome)>>)
  ELSE Response("health_check", "", 500, "Internal server error", <<>>,
                <<Query("SELECT 1", "", <<>>, outcome)>>)

health_result(outcome) ==
  IF outcome = "ok"
  THEN Response("health_check", "", 200, "",
                [status |-> "healthy", database |-> "connected"],
                <<Query("SELECT 1", "", <<>>, outcome)>>)
  ELSE Response("health_check", "", 503, "Database connection failed", <<>>,
                <<Query("SELECT 1", "", <<>>, outcome)>>)

health_check ==
  /\ req.pc = "idle"
  /\ resp' = health_result(IF storage_up THEN "ok" ELSE "connection_error")
  /\ UNCHANGED <<db, storage_up, req>>

(***************************************************************************)
(* GET /measures                                                           *)
(***************************************************************************)
\* try_measure that takes the all-NULL row of an empty relation for no row
try_measure_skips_empty(measures, measure_id, rows, outcome) ==
  IF outcome = "ok" /\ rows # <<>>
  THEN Append(measures, QualityMeasure(measure_id, AggregateRow(rows)))
  ELSE measures

\* try_measure that puts the new measure in front of the list
try_measure_prepends(measures, measure_id, rows, outcome) ==
  IF outcome = "ok"
  THEN <<QualityMeasure(measure_id, AggregateRow(rows))>> \o measures
  ELSE measures

\* try_measure with a failure that discards the measures gathered so far
try_measure_discards(measures, measure_id, rows, outcome) ==
  IF outcome = "ok"
  THEN Append(measures, QualityMeasure(measure_id, AggregateRow(rows)))
  ELSE <<>>

\* one try/except block of get_quality_measures: the measure is appended when
\* the round trip worked, the exception is swallowed otherwise
try_measure(measures, measure_id, rows, outcome) ==
  IF outcome = "ok"
  THEN Append(measures, QualityMeasure(measure_id, AggregateRow(rows)))
  ELSE measures

\* the list after the first k blocks, o[i] the outcome of block i
RECURSIVE measures_after(_, _, _)
measures_after(k, d, o) ==
  IF k = 0 THEN <<>>
  ELSE try_measure(measures_after(k - 1, d, o), CatalogOrder[k],
                   d[table_name(CatalogOrder[k])], o[k])

list_queries(o) ==
  [k \in 1..Len(CatalogOrder) |->
     Query("aggregate", table_name(CatalogOrder[k]), <<>>, o[k])]

\* get_quality_measures behind a circuit breaker kept in the process: once a
\* query has failed, the next listing is answered empty without querying
get_quality_measures_remembers ==
  /\ req.pc = "idle"
  /\ IF \E i \in 1..Len(resp.queries) : resp.queries[i].outcome # "ok"
     THEN resp' = Response("get_quality_measures", "", 200, "", <<>>, <<>>)
     ELSE \E o1 \in Outcomes(storage_up, db[A1C]), o2 \in Outcomes(storage_up, db[BCS]),
             o3 \in Outcomes(storage_up, db[PSI]) :
            resp' = Response("get_quality_measures", "", 200, "",
                             measures_after(Len(CatalogOrder), db, <<o1, o2, o3>>),
                             list_queries(<<o1, o2, o3>>))
  /\ UNCHANGED <<db, storage_up, req>>

get_quality_measures ==
  /\ req.pc = "idle"
  /\ \E o1 \in Outcomes(storage_up, db[A1C]), o2 \in Outcomes(storage_up, db[BCS]),
        o3 \in Outcomes(storage_up, db[PSI]) :
       resp' = Response("get_quality_measures", "", 200, "",
                        measures_after(Len(CatalogOrder), db, <<o1, o2, o3>>),
                        list_queries(<<o1, o2, o3>>))
  /\ UNCHANGED <<db, storage_up, req>>

(***************************************************************************)
(* GET /measures/{measure_id}                                              *)
(***************************************************************************)
\* not_found answered only after the summary query was tried
not_found_after_query(measure_id) ==
  Response("get_measure_details", measure_id, 404, "Measure not found", <<>>,
           <<Query("summary", "", <<>>, "missing_relation")>>)

not_found(measure_id) ==
  Response("get_measure_details", measure_id, 404, "Measure not found", <<>>, <<>>)

\* internal_error that passes the text of the caught exception on
internal_error_leaks(op, arg, queries) ==
  Response(op, arg, 500, queries[Len(queries)].outcome, <<>>, queries)

\* except Exception: raise HTTPException(500, "Internal server error")
\* (lines 260-262 and 339-341)
internal_error(op, arg, queries) ==
  Response(op, arg, 500, "Internal server error", <<>>, queries)

\* MeasureSummary(...) of lines 251-258
MeasureSummary(measure_id, summary_row, details_rows) ==
  [measure_id |-> measure_id,
   measure_name |-> measure_name(measure_id),
   total_denominator |-> PyOr(summary_row.denominator, 0),
   total_numerator |-> PyOr(summary_row.numerator, 0),
   overall_rate |-> PyOr(summary_row.rate, 0),
   patient_details |-> [i \in 1..Len(details_rows) |-> PatientMeasure(details_rows[i])]]

\* the unknown id is answered before the try block and before any query
get_measure_details_unknown ==
  /\ req.pc = "idle"
  /\ \E measure_id \in MeasureIdInputs :
       /\ ~InCatalog(measure_id)
       /\ resp' = not_found(measure_id)
  /\ UNCHANGED <<db, storage_up, req>>

\* after_summary with a failed summary query reported as an unknown measure
after_summary_404(measure_id, rows, outcome) ==
  IF outcome = "ok"
  THEN [req |-> [pc |-> "details_query", measure_id |-> measure_id,
                 summary_row |-> AggregateRow(rows), reloaded |-> FALSE],
        resp |-> NoResponse]
  ELSE [req |-> Idle,
        resp |-> Response("get_measure_details", measure_id, 404, "Measure not found",
                          <<>>, <<Query("summary", table_name(measure_id), <<>>, outcome)>>)]

\* what follows the summary query (lines 229-232): the handler goes on to the
\* detail query, or the exception is caught and answered with 500
after_summary(measure_id, rows, outcome) ==
  IF outcome = "ok"
  THEN [req |-> [pc |-> "details_query", measure_id |-> measure_id,
                 summary_row |-> AggregateRow(rows), reloaded |-> FALSE],
        resp |-> NoResponse]
  ELSE [req |-> Idle,
        resp |-> internal_error("get_measure_details", measure_id,
                   <<Query("summary", table_name(measure_id), <<>>, outcome)>>)]

get_measure_details_summary ==
  /\ req.pc = "idle"
  /\ \E measure_id \in MeasureIdInputs, outcome \in RawOutcomes(storage_up) :
       /\ InCatalog(measure_id)
       /\ LET next == after_summary(measure_id, db[table_name(measure_id)], outcome)
          IN  req' = next.req /\ resp' = next.resp
  /\ UNCHANGED <<db, storage_up>>

\* after_details that answers a failed detail query with the summary alone
after_details_partial(measure_id, summary_row, details_rows, outcome, reloaded) ==
  LET queries == <<Query("summary", table_name(measure_id), <<>>, "ok"),
                   Query("details", table_name(measure_id), <<>>, outcome)>>
  IN  [Response("get_measure_details", measure_id, 200, "",
                MeasureSummary(measure_id, summary_row,
                               IF outcome = "ok" THEN details_rows ELSE <<>>), queries)
       EXCEPT !.reloaded = reloaded]

\* after_details without the defaults for NULL sums: the response model
\* rejects the NULL and the exception is answered with 500
after_details_null_sums(measure_id, summary_row, details_rows, outcome, reloaded) ==
  LET queries == <<Query("summary", table_name(measure_id), <<>>, "ok"),
                   Query("details", table_name(measure_id), <<>>, outcome)>>
  IN  [(IF outcome = "ok" /\ summary_row.denominator # Null
        THEN Response("get_measure_details", measure_id, 200, "",
                      MeasureSummary(measure_id, summary_row, details_rows), queries)
        ELSE internal_error("get_measure_details", measure_id, queries))
       EXCEPT !.reloaded = reloaded]

\* what follows the detail query (lines 235-262): the response is assembled,
\* or the exception is caught and answered with 500
after_details(measure_id, summary_row, details_rows, outcome, reloaded) ==
  LET queries == <<Query("summary", table_name(measure_id), <<>>, "ok"),
                   Query("details", table_name(measure_id), <<>>, outcome)>>
  IN  [(IF outcome = "ok"
        THEN Response("get_measure_details", measure_id, 200, "",
                      MeasureSummary(measure_id, summary_row, details_rows), queries)
        ELSE internal_error("get_measure_details", measure_id, queries))
       EXCEPT !.reloaded = reloaded]

get_measure_details_rows ==
  /\ req.pc = "details_query"
  /\ \E outcome \in Outcomes(storage_up, db[table_name(req.measure_id)]),
        details_rows \in OrderByFullName(db[table_name(req.measure_id)]) :
       resp' = after_details(req.measure_id, req.summary_row, details_rows, outcome,
                             req.reloaded)
  /\ req' = Idle
  /\ UNCHANGED <<db, storage_up>>

(***************************************************************************)
(* GET /patients/{patient_id}/measures                                     *)
(***************************************************************************)
\* fetchone() on a query without ORDER BY: no row, or any of the matching rows
fetchone(rows, patient_id) ==
  IF WherePatient(rows, patient_id) = {} THEN {Null}
  ELSE {<<rows[i]>> : i \in WherePatient(rows, patient_id)}

\* append_patient_measure without the test of the row: a measure without a
\* matching row is reported with zero counts
append_patient_measure_unconditional(measures, measure_id, row) ==
  Append(measures,
         [measure_id |-> measure_id, measure_name |-> measure_name(measure_id),
          denominator |-> IF row = Null THEN 0 ELSE row[1].denominator,
          numerator |-> IF row = Null THEN 0 ELSE row[1].numerator])

\* if row: measures.append({...})
append_patient_measure(measures, measure_id, row) ==
  IF row = Null THEN measures
  ELSE Append(measures,
              [measure_id |-> measure_id, measure_name |-> measure_name(measure_id),
               denominator |-> row[1].denominator, numerator |-> row[1].numerator])

\* patient_measures_result with a try block of its own around each lookup:
\* a failed lookup is skipped
patient_measures_result_swallows(patient_id, row1, o1, row2, o2) ==
  LET q1 == Query("patient", A1C, <<patient_id>>, o1)
      q2 == Query("patient", BCS, <<patient_id>>, o2)
      m1 == IF o1 = "ok" THEN append_patient_measure(<<>>, "HEDIS-DM-A1C", row1) ELSE <<>>
      m2 == IF o2 = "ok" THEN append_patient_measure(m1, "HEDIS-BCS", row2) ELSE m1
  IN  Response("get_patient_measures", patient_id, 200, "",
               [patient_id |-> patient_id, measures |-> m2], <<q1, q2>>)

\* patient_measures_result with the patient_id formatted into the query text
\* instead of bound as a parameter
patient_measures_result_interpolates(patient_id, row1, o1, row2, o2) ==
  LET q1 == Query(patient_id, A1C, <<>>, o1)
      q2 == Query(patient_id, BCS, <<>>, o2)
      m1 == append_patient_measure(<<>>, "HEDIS-DM-A1C", row1)
      m2 == append_patient_measure(m1, "HEDIS-BCS", row2)
  IN  IF o1 # "ok" THEN internal_error("get_patient_measures", patient_id, <<q1>>)
      ELSE IF o2 # "ok"
      THEN internal_error("get_patient_measures", patient_id, <<q1, q2>>)
      ELSE Response("get_patient_measures", patient_id, 200, "",
                    [patient_id |-> patient_id, measures |-> m2], <<q1, q2>>)

\* patient_measures_result that takes a patient without measures for an
\* unknown patient
patient_measures_result_404(patient_id, row1, o1, row2, o2) ==
  LET q1 == Query("patient", A1C, <<patient_id>>, o1)
      q2 == Query("patient", BCS, <<patient_id>>, o2)
      m1 == append_patient_measure(<<>>, "HEDIS-DM-A1C", row1)
      m2 == append_patient_measure(m1, "HEDIS-BCS", row2)
  IN  IF o1 # "ok" THEN internal_error("get_patient_measures", patient_id, <<q1>>)
      ELSE IF o2 # "ok"
      THEN internal_error("get_patient_measures", patient_id, <<q1, q2>>)
      ELSE IF m2 = <<>>
      THEN Response("get_patient_measures", patient_id, 404, "Patient not found",
                    <<>>, <<q1, q2>>)
      ELSE Response("get_patient_measures", patient_id, 200, "",
                    [patient_id |-> patient_id, measures |-> m2], <<q1, q2>>)

\* the body of get_patient_measures: one try block around both lookups
patient_measures_result(patient_id, row1, o1, row2, o2) ==
  LET q1 == Query("patient", A1C, <<patient_id>>, o1)
      q2 == Query("patient", BCS, <<patient_id>>, o2)
      m1 == append_patient_measure(<<>>, "HEDIS-DM-A1C", row1)
      m2 == append_patient_measure(m1, "HEDIS-BCS", row2)
  IN  IF o1 # "ok" THEN internal_error("get_patient_measures", patient_id, <<q1>>)
      ELSE IF o2 # "ok"
      THEN internal_error("get_patient_measures", patient_id, <<q1, q2>>)
      ELSE Response("get_patient_measures", patient_id, 200, "",
                    [patient_id |-> patient_id, measures |-> m2], <<q1, q2>>)

get_patient_measures ==
  /\ req.pc = "idle"
  /\ \E patient_id \in PatientIdInputs,
        o1 \in RawOutcomes(storage_up), o2 \in RawOutcomes(storage_up) :
       \E row1 \in fetchone(db[A1C], patient_id), row2 \in fetchone(db[BCS], patient_id) :
         resp' = patient_measures_result(patient_id, row1, o1, row2, o2)
  /\ UNCHANGED <<db, storage_up, req>>

(***************************************************************************)
(* The environment: the storage engine and the external loading job        *)
(***************************************************************************)
storage_fails ==
  /\ storage_up
  /\ storage_up' = FALSE
  /\ UNCHANGED <<db, req, resp>>

storage_recovers ==
  /\ ~storage_up
  /\ storage_up' = TRUE
  /\ UNCHANGED <<db, req, resp>>

\* The transformation job rebuilds a relation while a request is between its
\* two queries. (A rebuild between requests leads to a database that Init
\* already starts from.)
external_load ==
  /\ req.pc = "details_query"
  /\ LET r == table_name(req.measure_id)
     IN  \/ /\ db[r] # <<>>
            /\ db' = [db EXCEPT ![r] = <<>>]
         \/ /\ TotalRows(db) < MaxRows
            /\ \A q \in Relations : \A i \in 1..Len(db[q]) : db[q][i] \in UnitRows
            /\ \E row \in UnitRows : db' = [db EXCEPT ![r] = Append(@, row)]
  /\ req' = [req EXCEPT !.reloaded = TRUE]
  /\ UNCHANGED <<storage_up, resp>>

Next ==
  \/ root
  \/ refresh_measures
  \/ health_check
  \/ get_quality_measures
  \/ get_measure_details_unknown
  \/ get_measure_details_summary
  \/ get_measure_details_rows
  \/ get_patient_measures
  \/ storage_fails
  \/ storage_recovers
  \/ external_load

Spec == Init /\ [][Next]_vars

(***************************************************************************)
(* A relation loaded with known rows                                       *)
(***************************************************************************)
\* largest denominator of a loaded row
MaxLoaded == 5

\* rows as the transformation job writes them: the numerator counts some of
\* the denominator
LoadedRows == {MkRow(p, d, n) : p \in Patients, d \in 0..MaxLoaded, n \in 0..MaxLoaded}

\* one row of each patient loaded into one relation, the others left empty
LoadedDbs ==
  {[EmptyDb EXCEPT ![r] = <<a, b>>] :
     r \in Relations,
     a \in {x \in LoadedRows : x.patient_id = "p1" /\ x.numerator <= x.denominator},
     b \in {x \in LoadedRows : x.patient_id = "p2" /\ x.numerator <= x.denominator}}

InitRoundTrip ==
  /\ db \in LoadedDbs
  /\ storage_up \in BOOLEAN
  /\ req = Idle
  /\ resp = NoResponse

SpecRoundTrip == InitRoundTrip /\ [][Next]_vars

(***************************************************************************)
(* A storage engine that stops answering                                   *)
(***************************************************************************)
\* the handlers that open a connection and execute a query
StorageHandlers ==
  {"health_check", "get_quality_measures", "get_measure_details", "get_patient_measures"}

\* a request whose handler waits in engine.connect() or conn.execute()
Pending(op) == [NoResponse EXCEPT !.op = op]

\* The engine is created with the URL alone (line 18): no connect_timeout,
\* no statement_timeout, no options the driver would turn into one. A
\* connection attempt or a query the storage never answers leaves the
\* handler inside the call; no step of the program takes it out again.
execute_stalls ==
  /\ \/ /\ req.pc = "idle"
        /\ \E op \in StorageHandlers : resp' = Pending(op)
     \/ /\ req.pc = "details_query"
        /\ resp' = Pending("get_measure_details")
  /\ req' = [req EXCEPT !.pc = "blocked"]
  /\ UNCHANGED <<db, storage_up>>

NextStall == Next \/ execute_stalls

\* A handler that is between its two queries runs on: the event loop never
\* leaves a started handler aside for ever.
SpecStall == Init /\ [][NextStall]_vars /\ WF_vars(get_measure_details_rows)

(***************************************************************************)
(* Properties                                                              *)
(***************************************************************************)
ListResponse == resp.op = "get_quality_measures"

DetailsResponse == resp.op = "get_measure_details"

PatientResponse == resp.op = "get_patient_measures"

\* the positions of measure_id in a list of records with a measure_id
PositionsOf(list, measure_id) == {i \in 1..Len(list) : list[i].measure_id = measure_id}

AllOk(queries) == \A i \in 1..Len(queries) : queries[i].outcome = "ok"

\* C1: GET /measures never fails: it answers 200 with a list that holds the
\* measure of block k exactly when the round trip of block k worked, and the
\* entry of a measure is made of the sums over its own relation alone (zeros
\* for an empty relation), whatever happened to the other blocks.
C1_ListNeverFails ==
  ListResponse =>
    /\ resp.status = 200
    /\ \A k \in 1..Len(CatalogOrder) :
         LET at == PositionsOf(resp.body, CatalogOrder[k])
             rows == db[table_name(CatalogOrder[k])]
         IN  /\ (at # {}) <=> (resp.queries[k].outcome = "ok")
             /\ \A i \in at :
                  /\ resp.body[i].denominator = SumOf(rows, "denominator")
                  /\ resp.body[i].numerator = SumOf(rows, "numerator")
                  /\ resp.body[i].measure_name = measure_name(CatalogOrder[k])

\* C1 witness: the middle block failed while the storage was up, the first
\* measure is listed with the zeros of its empty relation and the third with
\* the sums of its rows.
C1_Witness ==
  /\ ListResponse
  /\ resp.queries[2].outcome = "missing_relation"
  /\ db[A1C] = <<>>
  /\ Len(resp.body) = 2
  /\ resp.body[1].measure_id = "HEDIS-DM-A1C"
  /\ resp.body[1].denominator = 0
  /\ resp.body[2].measure_id = "HVBP-PSI-04"
  /\ resp.body[2].denominator = 2

\* C2: an id that is not exactly one of the three catalog ids is answered 404
\* "Measure not found" with no query tried, whether the storage is up or down,
\* and no request for such an id is ever waiting on a query.
C2_UnknownIdIs404 ==
  /\ (DetailsResponse /\ resp.arg \notin {"HEDIS-DM-A1C", "HEDIS-BCS", "HVBP-PSI-04"}) =>
       /\ resp.status = 404
       /\ resp.detail = "Measure not found"
       /\ resp.queries = <<>>
  /\ req.pc # "idle" => req.measure_id \in {"HEDIS-DM-A1C", "HEDIS-BCS", "HVBP-PSI-04"}

\* C2 witness: the lower-case spelling of a catalog id answered 404 while the
\* storage is down.
C2_Witness ==
  /\ DetailsResponse
  /\ resp.arg = "hedis-dm-a1c"
  /\ resp.status = 404
  /\ ~storage_up

C4_PatientAlwaysOk ==
  PatientResponse => resp.status = 200

\* C4, amended: the answer is 200 with {patient_id, measures} exactly when
\* both lookups worked; a failure of either lookup is answered 500 "Internal
\* server error", the second lookup is not tried after a failed first one and
\* nothing gathered before the failure is returned.
C4_PatientFailureIs500 ==
  PatientResponse =>
    /\ resp.status \in {200, 500}
    /\ resp.status = 200 <=> (Len(resp.queries) = 2 /\ AllOk(resp.queries))
    /\ resp.status = 200 => resp.body.patient_id = resp.arg
    /\ resp.status = 500 =>
         /\ resp.detail = "Internal server error"
         /\ resp.body = <<>>
         /\ AllOk(SubSeq(resp.queries, 1, Len(resp.queries) - 1))

\* C4 witness: the first lookup found a row of the patient, the second one
\* failed, and the answer is 500.
C4_Witness ==
  /\ PatientResponse
  /\ resp.status = 500
  /\ Len(resp.queries) = 2
  /\ resp.queries[2].outcome = "missing_relation"
  /\ WherePatient(db[A1C], resp.arg) # {}

\* C5: a MeasureSummary is returned only when the summary query and the detail
\* query both worked; when either fails the one answer is a 500 without body,
\* and a request that is between its two queries has not been answered.
C5_NoPartialSummary ==
  /\ (DetailsResponse /\ resp.arg \in CatalogIds) =>
       /\ ~AllOk(resp.queries) => (resp.status = 500 /\ resp.body = <<>>)
       /\ resp.status # 500 =>
            /\ Len(resp.queries) = 2
            /\ resp.queries[1].text = "summary" /\ resp.queries[2].text = "details"
            /\ AllOk(resp.queries)
  /\ req.pc = "details_query" => resp = NoResponse

\* C5 witness: the summary query worked, the storage went down before the
\* detail query, and the answer is 500.
C5_Witness ==
  /\ DetailsResponse
  /\ resp.status = 500
  /\ Len(resp.queries) = 2
  /\ resp.queries[1].outcome = "ok"
  /\ resp.queries[2].outcome = "connection_error"
  /\ db[table_name(resp.arg)] # <<>>

WellFormed(rows) ==
  \A i \in 1..Len(rows) : 0 <= rows[i].numerator /\ rows[i].numerator <= rows[i].denominator

\* C6, as claimed: every measure of GET /measures has 0 <= numerator <=
\* denominator, whatever the relations hold.
C6_NumeratorWithinDenominator ==
  ListResponse =>
    \A i \in 1..Len(resp.body) :
      0 <= resp.body[i].numerator /\ resp.body[i].numerator <= resp.body[i].denominator

\* C6, amended: a measure of GET /measures has 0 <= numerator <= denominator
\* whenever every row of its relation has 0 <= numerator <= denominator; the
\* gateway returns the sums as they are.
C6_WithinWhenRowsAre ==
  ListResponse =>
    \A i \in 1..Len(resp.body) :
      WellFormed(db[table_name(resp.body[i].measure_id)]) =>
        (0 <= resp.body[i].numerator /\ resp.body[i].numerator <= resp.body[i].denominator)

\* C6 witness: a listed measure over two well-formed rows, one of which met
\* the criterion.
C6_Witness ==
  /\ ListResponse
  /\ Len(resp.body) >= 1
  /\ Len(db[table_name(resp.body[1].measure_id)]) = 2
  /\ resp.body[1].denominator = 2
  /\ resp.body[1].numerator = 1

\* C7: a measure of GET /measures carries the sums over the rows of its
\* relation; its rate is numerator / denominator * 100 to the nearest
\* hundredth when the denominator is positive, and 0 otherwise (an empty
\* relation included).
C7_RateIsRoundedRatio ==
  ListResponse =>
    \A i \in 1..Len(resp.body) :
      LET rows == db[table_name(resp.body[i].measure_id)]
          d == resp.body[i].denominator
          n == resp.body[i].numerator
          r == resp.body[i].rate
      IN  /\ d = SumOf(rows, "denominator")
          /\ n = SumOf(rows, "numerator")
          /\ IF d > 0
             THEN 2 * (r * d - n * 10000) \in (0 - d)..d
             ELSE r = 0

\* C7 witness: a measure with 2 of 3 is listed with the rate 66.67, next to a
\* measure over an empty relation with the rate 0.
C7_Witness ==
  /\ ListResponse
  /\ Len(resp.body) = 3
  /\ resp.body[1].denominator = 3
  /\ resp.body[1].numerator = 2
  /\ resp.body[1].rate = 6667
  /\ db[BCS] = <<>>
  /\ resp.body[2].rate = 0

CatalogPos(measure_id) == CHOOSE k \in 1..Len(CatalogOrder) : CatalogOrder[k] = measure_id

\* C8: the list of GET /measures is a subsequence of the catalog order: at
\* most three items, catalog ids only, no id twice, in declaration order.
C8_ListInCatalogOrder ==
  ListResponse =>
    /\ Len(resp.body) <= 3
    /\ \A i \in 1..Len(resp.body) : resp.body[i].measure_id \in CatalogIds
    /\ \A i, j \in 1..Len(resp.body) :
         i < j => CatalogPos(resp.body[i].measure_id) < CatalogPos(resp.body[j].measure_id)

\* C8 witness: the first block failed and the list holds the second and the
\* third measure, in that order.
C8_Witness ==
  /\ ListResponse
  /\ resp.queries[1].outcome = "unmappable"
  /\ Len(resp.body) = 2
  /\ resp.body[1].measure_id = "HEDIS-BCS"
  /\ resp.body[2].measure_id = "HVBP-PSI-04"

CountOf(s, x) == Cardinality({i \in 1..Len(s) : s[i] = x})

\* C10: patient_details of a 200 MeasureSummary holds one record per row of
\* the relation, none dropped and none twice, ascending by full_name,
\* whatever the physical order of the rows.
C10_DetailsSortedAndComplete ==
  (DetailsResponse /\ resp.status = 200) =>
    LET details == resp.body.patient_details
        rows == db[table_name(resp.arg)]
    IN  /\ Len(details) = Len(rows)
        /\ \A i \in 1..Len(rows) :
             CountOf(details, PatientMeasure(rows[i])) = CountOf(rows, rows[i])
        /\ \A i, j \in 1..Len(details) :
             i < j => details[i].full_name <= details[j].full_name

\* C10 witness: the relation holds two rows with the later name first, and
\* patient_details lists them with the earlier name first.
C10_Witness ==
  /\ DetailsResponse
  /\ resp.status = 200
  /\ Len(db[table_name(resp.arg)]) = 2
  /\ db[table_name(resp.arg)][1].full_name > db[table_name(resp.arg)][2].full_name
  /\ resp.body.patient_details[1].full_name < resp.body.patient_details[2].full_name

\* C11: over a relation loaded with known rows and not rebuilt during the
\* request, GET /measures/{id} returns the sums of the loaded denominators and
\* numerators and, for a positive denominator, their ratio in percent to the
\* nearest hundredth: 10 and 7 give 70.0.
C11_RoundTrip ==
  (DetailsResponse /\ resp.status = 200 /\ ~resp.reloaded) =>
    LET rows == db[table_name(resp.arg)]
        d == resp.body.total_denominator
        n == resp.body.total_numerator
        r == resp.body.overall_rate
    IN  /\ d = SumOf(rows, "denominator")
        /\ n = SumOf(rows, "numerator")
        /\ d > 0 => 2 * (r * d - n * 10000) \in (0 - d)..d
        /\ (d = 10 /\ n = 7) => r = 7000

\* C11 witness: two loaded rows with denominators 5 and 5 and numerators 4
\* and 3, answered with 10, 7 and 70.0.
C11_Witness ==
  /\ DetailsResponse
  /\ resp.status = 200
  /\ Len(db[table_name(resp.arg)]) = 2
  /\ db[table_name(resp.arg)][1].numerator = 4
  /\ db[table_name(resp.arg)][2].numerator = 3
  /\ resp.body.total_denominator = 10
  /\ resp.body.total_numerator = 7
  /\ resp.body.overall_rate = 7000


\* C12: GET /patients/{id}/measures never answers 404; for an id without a
\* row in any measure relation, on a storage that answers both lookups, it
\* answers 200 with the id echoed and measures = [].
C12_NoRowsIsEmptyList ==
  PatientResponse =>
    /\ resp.status # 404
    /\ (/\ \A r \in Relations : WherePatient(db[r], resp.arg) = {}
        /\ Len(resp.queries) = 2 /\ AllOk(resp.queries)) =>
         /\ resp.status = 200
         /\ resp.body.patient_id = resp.arg
         /\ resp.body.measures = <<>>

\* C12 witness: an id that owns no row, asked while the relations hold rows of
\* other patients, is answered 200 with an empty list.
C12_Witness ==
  /\ PatientResponse
  /\ resp.arg = "test-patient-123"
  /\ resp.status = 200
  /\ resp.body.measures = <<>>
  /\ db[A1C] # <<>>
  /\ db[BCS] # <<>>


\* a step that answers a request of handler op
Answers(op) == resp' # resp /\ resp'.op = op

\* C13: GET /health answers 200 {healthy, connected} when the SELECT 1 probe
\* reaches the storage and 503 "Database connection failed" when it does not;
\* the probe is its only query and names no relation, so the answer is the
\* same whatever the measure relations hold.
C13_HealthIsProbe ==
  [][Answers("health_check") =>
       /\ storage_up =>
            /\ resp'.status = 200
            /\ resp'.body = [status |-> "healthy", database |-> "connected"]
       /\ ~storage_up =>
            /\ resp'.status = 503
            /\ resp'.detail = "Database connection failed"
       /\ Len(resp'.queries) = 1
       /\ resp'.queries[1].text = "SELECT 1"
       /\ resp'.queries[1].relation \notin Relations]_vars

\* C13 witness: 503 from a storage that is down, with rows in the relations.
C13_Witness ==
  /\ resp.op = "health_check"
  /\ resp.status = 503
  /\ ~storage_up
  /\ TotalRows(db) = 2


\* C14: POST /measures/refresh answers 200 with status "success" whether the
\* storage is up or down, issues no query and leaves the relations as they
\* were, so that any number of refresh calls changes nothing a read endpoint
\* returns.
C14_RefreshChangesNothing ==
  [][Answers("refresh_measures") =>
       /\ resp'.status = 200
       /\ resp'.body.status = "success"
       /\ resp'.queries = <<>>
       /\ db' = db
       /\ storage_up' = storage_up
       /\ req' = req]_vars

\* C14 witness: a refresh answered with success while the storage is down and
\* the relations hold rows.
C14_Witness ==
  /\ resp.op = "refresh_measures"
  /\ resp.status = 200
  /\ ~storage_up
  /\ TotalRows(db) = 2


\* the outcomes of a response's queries, with query k failed instead
WithFailed(queries, k) ==
  [j \in 1..Len(queries) |-> IF j = k THEN "missing_relation" ELSE queries[j].outcome]

\* C15, as claimed: what the caller sees when a measure's relation holds no
\* rows is what the caller sees when that measure's query fails, in the
\* listing and in the per-patient sweep.
C15_EmptyLooksLikeFailed ==
  /\ ListResponse =>
       \A k \in 1..Len(CatalogOrder) :
         (db[table_name(CatalogOrder[k])] = <<>> /\ resp.queries[k].outcome = "ok") =>
           resp.body = measures_after(Len(CatalogOrder), db, WithFailed(resp.queries, k))
  /\ (/\ PatientResponse
      /\ Len(resp.queries) = 2 /\ AllOk(resp.queries)
      /\ WherePatient(db[A1C], resp.arg) = {}) =>
       resp.status =
         patient_measures_result(resp.arg, Null, "missing_relation", Null, "ok").status

\* C15, amended: the caller can tell the two apart. In the listing a measure
\* whose relation holds no rows is listed with denominator 0, numerator 0 and
\* rate 0, and a measure whose query failed is absent. In the per-patient
\* sweep a measure without a row of the patient is absent from a 200
\* response, and a failed query makes the whole response a 500.
C15_EmptyAndFailedDiffer ==
  /\ ListResponse =>
       \A k \in 1..Len(CatalogOrder) :
         LET at == PositionsOf(resp.body, CatalogOrder[k])
         IN  /\ (db[table_name(CatalogOrder[k])] = <<>> /\ resp.queries[k].outcome = "ok") =>
                  /\ at # {}
                  /\ \A i \in at :
                       /\ resp.body[i].denominator = 0
                       /\ resp.body[i].numerator = 0
                       /\ resp.body[i].rate = 0
             /\ resp.queries[k].outcome # "ok" => at = {}
  /\ PatientResponse =>
       /\ ~AllOk(resp.queries) => resp.status = 500
       /\ resp.status = 200 =>
            \A m \in {"HEDIS-DM-A1C", "HEDIS-BCS"} :
              WherePatient(db[table_name(m)], resp.arg) = {} =>
                PositionsOf(resp.body.measures, m) = {}

\* C15 witness: one listing in which the measure over an empty relation is
\* present with zeros and the measure whose query failed is absent.
C15_Witness ==
  /\ ListResponse
  /\ db[A1C] = <<>>
  /\ resp.queries[1].outcome = "ok"
  /\ resp.queries[3].outcome = "missing_relation"
  /\ PositionsOf(resp.body, "HEDIS-DM-A1C") = {1}
  /\ resp.body[1].denominator = 0
  /\ PositionsOf(resp.body, "HVBP-PSI-04") = {}


\* C16: the text of a query is fixed by the handler and the position of the
\* query in it. The lookups of get_patient_measures have the same text and
\* relation for every patient_id and carry the id as their one bound
\* parameter; the queries of get_measure_details name a catalog relation,
\* never the measure_id, and bind nothing.
C16_QueryTextFixed ==
  /\ PatientResponse =>
       \A i \in 1..Len(resp.queries) :
         /\ resp.queries[i].text = "patient"
         /\ resp.queries[i].relation = (IF i = 1 THEN A1C ELSE BCS)
         /\ resp.queries[i].params = <<resp.arg>>
  /\ DetailsResponse =>
       \A i \in 1..Len(resp.queries) :
         /\ resp.queries[i].text = (IF i = 1 THEN "summary" ELSE "details")
         /\ resp.queries[i].relation \in {A1C, BCS, PSI}
         /\ resp.queries[i].relation # resp.arg
         /\ resp.queries[i].params = <<>>

\* C16 witness: both lookups ran for an id that owns no row and carried it as
\* their parameter.
C16_Witness ==
  /\ PatientResponse
  /\ resp.arg = "test-patient-123"
  /\ Len(resp.queries) = 2
  /\ resp.queries[1].params = <<"test-patient-123">>
  /\ resp.queries[2].params = <<"test-patient-123">>


\* C17: every request that has started is eventually answered, also when the
\* storage never answers a connection attempt or a query.
C17_EveryRequestAnswered == (req.pc # "idle") ~> (req.pc = "idle")


\* C18: while a request waits for the storage, a request that needs no
\* storage (GET / or POST /measures/refresh) can be handled to completion.
C18_OthersProceed ==
  req.pc = "details_query" => (ENABLED root /\ ENABLED refresh_measures)


\* what the caller receives of a response: the query log stays in the server
Visible(r) == [status |-> r.status, detail |-> r.detail, body |-> r.body]

\* C19: a 500 of get_measure_details or get_patient_measures shows the caller
\* the detail "Internal server error" and nothing else, whichever query
\* failed and however it failed.
C19_GenericInternalError ==
  ((DetailsResponse \/ PatientResponse) /\ resp.status = 500) =>
    Visible(resp) = [status |-> 500, detail |-> "Internal server error", body |-> <<>>]

\* C19 witness: a 500 caused by something other than a lost connection, here
\* a relation that does not exist, hit by the second query of a handler.
C19_Witness ==
  /\ DetailsResponse \/ PatientResponse
  /\ resp.status = 500
  /\ Len(resp.queries) = 2
  /\ resp.queries[2].outcome = "missing_relation"



\* the answers a request handled in one step can get from storage content d
\* whose engine is reachable or not (up): every endpoint, every input, every
\* outcome of the round trips. Nothing else is read.
AtomicResponses(d, up) ==
  {Response("root", "", 200, "",
            [message |-> "Value-Based Care Quality Suite API", version |-> "1.0.0"],
            <<>>),
   Response("refresh_measures", "", 200, "",
            [message |-> "Quality measures refresh initiated", status |-> "success"],
            <<>>),
   health_result(IF up THEN "ok" ELSE "connection_error")}
  \cup {Response("get_quality_measures", "", 200, "",
                 measures_after(Len(CatalogOrder), d, <<o1, o2, o3>>),
                 list_queries(<<o1, o2, o3>>)) :
          o1 \in Outcomes(up, d[A1C]), o2 \in Outcomes(up, d[BCS]),
          o3 \in Outcomes(up, d[PSI])}
  \cup {not_found(m) : m \in MeasureIdInputs \ CatalogIds}
  \cup {after_summary(m, d[table_name(m)], o).resp :
          m \in CatalogIds, o \in RawOutcomes(up) \ {"ok"}}
  \cup UNION {{patient_measures_result(p, row1, o1, row2, o2) :
                 row1 \in fetchone(d[A1C], p), row2 \in fetchone(d[BCS], p),
                 o1 \in RawOutcomes(up), o2 \in RawOutcomes(up)} :
                p \in PatientIdInputs}

\* the state of a request of get_measure_details between its two queries
DetailsStarted(d) ==
  {[pc |-> "details_query", measure_id |-> m,
    summary_row |-> AggregateRow(d[table_name(m)]), reloaded |-> FALSE] :
     m \in CatalogIds}

\* the answers to such a request, from what it holds itself and from d
DetailsResponses(r, d, up) ==
  {after_details(r.measure_id, r.summary_row, rows, o, r.reloaded) :
     rows \in OrderByFullName(d[table_name(r.measure_id)]),
     o \in Outcomes(up, d[table_name(r.measure_id)])}

\* a step of a handler: the storage stays as it is and a request is answered
\* or moves on to its second query
HandlerStep ==
  /\ UNCHANGED <<db, storage_up>>
  /\ <<req, resp>>' # <<req, resp>>

\* the handler of the endpoint that answers r
HandlerOf(r) ==
  \/ r.op = "root" /\ root
  \/ r.op = "refresh_measures" /\ refresh_measures
  \/ r.op = "health_check" /\ health_check
  \/ r.op = "get_quality_measures" /\ get_quality_measures
  \/ r.op = "get_measure_details" /\ r.status = 404 /\ get_measure_details_unknown
  \/ r.op = "get_measure_details" /\ r.status = 500 /\ get_measure_details_summary
  \/ r.op = "get_patient_measures" /\ get_patient_measures

PatientLookups == <<"HEDIS-DM-A1C", "HEDIS-BCS">>

C21_WitnessPsi ==
  /\ PatientResponse
  /\ resp.status = 200
  /\ WherePatient(db[PSI], resp.arg) # {}
  /\ resp.body.measures = <<>>


\* C22: in a 200 MeasureSummary the totals are the sums of the counts over
\* patient_details, also when the loading job changed the relation between
\* the summary query and the detail query.
C22_TotalsMatchDetails ==
  (DetailsResponse /\ resp.status = 200) =>
    /\ resp.body.total_denominator = SumOf(resp.body.patient_details, "denominator")
    /\ resp.body.total_numerator = SumOf(resp.body.patient_details, "numerator")

\* the same for the requests during which the relation was not reloaded
C22_TotalsMatchWithoutReload ==
  (DetailsResponse /\ resp.status = 200 /\ ~resp.reloaded) =>
    /\ resp.body.total_denominator = SumOf(resp.body.patient_details, "denominator")
    /\ resp.body.total_numerator = SumOf(resp.body.patient_details, "numerator")

====
